---- MODULE Spec2Model ----
(***************************************************************************)
(* The POST /ask-jiji request pipeline of src/src/server.js: the in-memory *)
(* rate limiter, the input-validation gate, the configuration check, the   *)
(* identity check, the parallel profile upsert / resource search, the      *)
(* query-log insert and the response assembly.                             *)
(*                                                                         *)
(* JavaScript strings are TLA+ strings.  A JavaScript value that may be    *)
(* undefined, null or of another type is a record [t |-> type, v |-> ...]. *)
(* The handler is an async function: the code between two awaits runs as   *)
(* one step of the event loop, so each action below is one such segment.   *)
(***************************************************************************)
EXTENDS Integers, Sequences, FiniteSets, TLC

VARIABLES
    rateLimitStore,   \* server.js:38  Map: client key -> {windowStart, count}
    now,              \* Date.now(), in milliseconds
    reqs,             \* one record per connection slot: the handler's locals
    env,              \* process.env: SUPABASE_URL and SUPABASE_ANON_KEY
    serverUp,         \* FALSE once the process has died
    windowRequests,   \* history: per client key, when its current 60 s window
                      \* was opened and the rate checks made in it since
    allowedAt         \* history: per client key and instant, the requests that
                      \* passed the rate check at that instant

vars == <<rateLimitStore, now, reqs, env, serverUp, windowRequests, allowedAt>>

----------------------------------------------------------------------------
(* Program constants *)

MAX_QUERY_LENGTH == 500
RATE_LIMIT_WINDOW_MS == 60 * 1000
RATE_LIMIT_MAX_REQUESTS == 30

(* Bounds of the model *)

\* a window's count is not driven beyond MaxCount
MaxCount == 32

----------------------------------------------------------------------------
(* JavaScript values *)

Undefined == [t |-> "undefined", v |-> ""]
Null      == [t |-> "null", v |-> ""]
Str(s)    == [t |-> "string", v |-> s]
Num(n)    == [t |-> "number", v |-> n]
Obj       == [t |-> "object", v |-> ""]

\* ToBoolean: undefined, null, 0 and "" are falsy
Truthy(x) ==
    CASE x.t = "undefined" -> FALSE
      [] x.t = "null"      -> FALSE
      [] x.t = "number"    -> x.v # 0
      [] x.t = "string"    -> x.v # ""
      [] OTHER             -> TRUE

\* the white space String.prototype.trim removes (the part the inputs use)
WhiteSpace == {" ", "\t", "\n"}

RECURSIVE trimStart(_)
trimStart(s) ==
    IF s # "" /\ Head(s) \in WhiteSpace THEN trimStart(Tail(s)) ELSE s

RECURSIVE trimEnd(_)
trimEnd(s) ==
    IF s # "" /\ SubSeq(s, Len(s), Len(s)) \in WhiteSpace
    THEN trimEnd(SubSeq(s, 1, Len(s) - 1))
    ELSE s

\* String.prototype.trim
trim(s) == trimEnd(trimStart(s))

\* s.split(",")[0]: the part of s before its first comma
RECURSIVE splitFirst(_)
splitFirst(s) ==
    IF s = "" \/ Head(s) = "," THEN "" ELSE Head(s) \o splitFirst(Tail(s))

\* n copies of the string c
RECURSIVE Rep(_, _)
Rep(c, n) ==
    IF n = 0 THEN ""
    ELSE LET h == Rep(c, n \div 2)
         IN  h \o h \o (IF n % 2 = 1 THEN c ELSE "")

----------------------------------------------------------------------------
(* Rate limiter *)

NoEntry == [windowStart |-> -1, count |-> 0]

\* rateLimitStore.get(ip) is undefined
Missing(store, ip) == store[ip] = NoEntry

\* the peer address preferred to the forwarded one
getClientIp_PeerFirst(req) ==
    LET xff == req.xff
        first == IF xff.t = "string" THEN Str(trim(splitFirst(xff.v))) ELSE Undefined
    IN  IF Truthy(req.ip) THEN req.ip ELSE first

\* server.js:40  req.headers["x-forwarded-for"]?.split(",")[0]?.trim() || req.ip
getClientIp(req) ==
    LET xff == req.xff
        first == IF xff.t = "string" THEN Str(trim(splitFirst(xff.v))) ELSE Undefined
    IN  IF Truthy(first) THEN first ELSE req.ip

\* the ceiling compared with >= : the 30th request is denied
OverCeiling_AtCeiling(count) == count >= RATE_LIMIT_MAX_REQUESTS

\* the comparison of server.js:53
OverCeiling(count) == count > RATE_LIMIT_MAX_REQUESTS

\* the expiry test with >= : a request exactly 60 s after windowStart opens a
\* new window
Expired_AtWindowLength(entry, t) == t - entry.windowStart >= RATE_LIMIT_WINDOW_MS

\* the expiry test of server.js:47
Expired(entry, t) == t - entry.windowStart > RATE_LIMIT_WINDOW_MS

\* a request over the ceiling is denied before it is counted
isRateLimited_DeniedUncounted(store, ip, t) ==
    LET entry == store[ip]
    IN  IF Missing(store, ip) \/ Expired(entry, t)
        THEN [limited |-> FALSE,
              store   |-> [store EXCEPT ![ip] = [windowStart |-> t, count |-> 1]]]
        ELSE IF entry.count >= RATE_LIMIT_MAX_REQUESTS
        THEN [limited |-> TRUE, store |-> store]
        ELSE [limited |-> FALSE,
              store   |-> [store EXCEPT ![ip].count = entry.count + 1]]

\* a new window opened with count 0: the opening request is not counted
isRateLimited_OpenedUncounted(store, ip, t) ==
    LET entry == store[ip]
    IN  IF Missing(store, ip) \/ Expired(entry, t)
        THEN [limited |-> FALSE,
              store   |-> [store EXCEPT ![ip] = [windowStart |-> t, count |-> 0]]]
        ELSE [limited |-> OverCeiling(entry.count + 1),
              store   |-> [store EXCEPT ![ip].count = entry.count + 1]]

\* the incremented count is compared but not written back
isRateLimited_CountNotStored(store, ip, t) ==
    LET entry == store[ip]
    IN  IF Missing(store, ip) \/ Expired(entry, t)
        THEN [limited |-> FALSE,
              store   |-> [store EXCEPT ![ip] = [windowStart |-> t, count |-> 1]]]
        ELSE [limited |-> OverCeiling(entry.count + 1), store |-> store]

\* server.js:43-58: the value returned and the store left behind
isRateLimited(store, ip, t) ==
    LET entry == store[ip]
    IN  IF Missing(store, ip) \/ Expired(entry, t)
        THEN [limited |-> FALSE,
              store   |-> [store EXCEPT ![ip] = [windowStart |-> t, count |-> 1]]]
        ELSE [limited |-> OverCeiling(entry.count + 1),
              store   |-> [store EXCEPT ![ip].count = entry.count + 1]]

----------------------------------------------------------------------------
(* Responses *)

NoDetails == "<absent>"

\* res.status(status).json({ error, details })
ErrorBody(error, details) == [error |-> error, details |-> details]

\* no response has been sent
NoResponse == [status |-> 0, body |-> ErrorBody("", NoDetails)]

\* server.js:66
TooManyRequests ==
    [status |-> 429,
     body   |-> ErrorBody("Too many requests. Please retry later.", NoDetails)]

\* server.js:72-74
NotAString ==
    [status |-> 400, body |-> ErrorBody("Query must be a non-empty string.", NoDetails)]

\* server.js:80-82
BadLength ==
    [status |-> 400,
     body   |-> ErrorBody("Query must be between 3 and " \o ToString(MAX_QUERY_LENGTH)
                            \o " characters.", NoDetails)]

\* server.js:86-88
ServerMisconfigured ==
    [status |-> 500,
     body   |-> ErrorBody("Server misconfiguration. Missing Supabase environment variables.",
                          NoDetails)]

\* the 401 body carrying the auth collaborator's error text
Unauthorized_WithDetails(authError) ==
    [status |-> 401,
     body   |-> ErrorBody("Unauthorized. Provide a valid Supabase JWT in the Authorization header.",
                          authError)]

\* server.js:100-102
Unauthorized(authError) ==
    [status |-> 401,
     body   |-> ErrorBody("Unauthorized. Provide a valid Supabase JWT in the Authorization header.",
                          NoDetails)]

\* server.js:121-124
ProfileSyncFailed(profileError) ==
    [status |-> 500, body |-> ErrorBody("Failed to sync profile.", profileError)]

\* server.js:128-131
ResourceFetchFailed(resourceError) ==
    [status |-> 500, body |-> ErrorBody("Failed to fetch resources.", resourceError)]

\* server.js:140-143
QueryLogFailed(insertError) ==
    [status |-> 500, body |-> ErrorBody("Failed to save query.", insertError)]

\* what Express 5 answers when the handler's promise rejects: its default error
\* page, not a JSON body of the handler
RawException == [status |-> 500, body |-> ErrorBody("<html>TypeError</html>", NoDetails)]

\* server.js:146
responseText(trimmedQuery) ==
    "Here's a quick overview for: \"" \o trimmedQuery
        \o "\". Review the resources below for deeper learning."

\* supabase.storage.from("learning-resources").getPublicUrl(path).data.publicUrl
getPublicUrl(path) ==
    env.SUPABASE_URL.v \o "/storage/v1/object/public/learning-resources/" \o path

\* the record passed on with its storage path as the url
WithLink_RawPath(resource) ==
    [id          |-> resource.id,
     title       |-> resource.title,
     description |-> resource.description,
     type        |-> resource.type,
     url         |-> resource.storage_path]

\* server.js:153-159
WithLink(resource) ==
    [id          |-> resource.id,
     title       |-> resource.title,
     description |-> resource.description,
     type        |-> resource.type,
     url         |-> getPublicUrl(resource.storage_path)]

\* server.js:148-160  (resources || []).map(...)
resourcesWithLinks(resources) ==
    IF resources.isNull THEN <<>>
    ELSE [i \in 1..Len(resources.rows) |-> WithLink(resources.rows[i])]

\* the body with a request id of its own, not the one of the header
Success_OwnId(requestId, trimmedQuery, resources) ==
    [status |-> 200,
     body   |-> [requestId |-> "uuid-0",
                 answer    |-> responseText(trimmedQuery),
                 resources |-> resourcesWithLinks(resources)]]

\* server.js:162-166
Success(requestId, trimmedQuery, resources) ==
    [status |-> 200,
     body   |-> [requestId |-> requestId,
                 answer    |-> responseText(trimmedQuery),
                 resources |-> resourcesWithLinks(resources)]]

----------------------------------------------------------------------------
(* Results of the collaborators *)

NoError == "<null>"

\* supabase.auth.getUser(): a promise of { data: { user }, error }
AuthResult(settled, hasData, user, error) ==
    [settled |-> settled, hasData |-> hasData, user |-> user, error |-> error]

\* getUser has not settled
NoAuth == AuthResult("none", FALSE, Null, NoError)

TheUser == [t |-> "object", v |-> "uid-1"]

\* what the auth collaborator may answer for an Authorization header: a user
\* only for a valid credential; a rejected promise or a result without a data
\* object for any
AuthResults(authorization) ==
    { AuthResult("rejected", FALSE, Null, NoError),
      AuthResult("resolved", FALSE, Null, "malformed"),
      AuthResult("resolved", TRUE, Null, "invalid JWT") }
    \cup
    IF authorization = Str("Bearer good")
    THEN { AuthResult("resolved", TRUE, TheUser, NoError) }
    ELSE { AuthResult("resolved", TRUE, Null, NoError) }

\* a query builder's promise of { data, error }
DbResult(settled, isNull, rows, error) ==
    [settled |-> settled, isNull |-> isNull, rows |-> rows, error |-> error]

Pending == DbResult("pending", TRUE, <<>>, NoError)

\* not yet called
NotCalled == DbResult("none", TRUE, <<>>, NoError)

Deck ==
    [id |-> "r1", title |-> "RAG 101 Deck", description |-> "Introductory slides",
     type |-> "ppt", storage_path |-> "rag-101.pptx"]

Video ==
    [id |-> "r2", title |-> "RAG Walkthrough Video", description |-> "Short session",
     type |-> "video", storage_path |-> "rag-walkthrough.mp4"]

\* profiles.upsert and queries.insert carry no data
WriteResults ==
    { DbResult("resolved", TRUE, <<>>, NoError),
      DbResult("resolved", TRUE, <<>>, "permission denied"),
      DbResult("rejected", TRUE, <<>>, NoError) }

\* resources.select(...).or(...).limit(5)
SelectResults ==
    { DbResult("resolved", FALSE, rows, NoError) : rows \in {<<>>, <<Deck>>, <<Video, Deck>>} }
    \cup
    { DbResult("resolved", TRUE, <<>>, NoError),
      DbResult("resolved", TRUE, <<>>, "search failed"),
      DbResult("rejected", TRUE, <<>>, NoError) }

----------------------------------------------------------------------------
(* The handler's locals *)

NoCalls == [getUser |-> 0, upsert |-> 0, select |-> 0, insert |-> 0]

NoRequest ==
    [xff |-> Undefined, ip |-> Undefined, hasBody |-> FALSE, query |-> Undefined,
     authorization |-> Undefined]

Idle ==
    [pc           |-> "idle",
     req          |-> NoRequest,
     requestId    |-> "",
     xRequestId   |-> "",
     clientIp     |-> Undefined,
     rate         |-> "none",
     nth          |-> 0,
     before       |-> NoEntry,
     observed     |-> NoEntry,
     trimmedQuery |-> "",
     auth         |-> NoAuth,
     user         |-> Null,
     profile      |-> NotCalled,
     resources    |-> NotCalled,
     insert       |-> NotCalled,
     calls        |-> NoCalls,
     resp         |-> NoResponse,
     nresp        |-> 0]

\* return res.status(...).json(...)
Respond(s, response) ==
    [s EXCEPT !.pc = "done", !.resp = response, !.nresp = s.nresp + 1]

\* an exception leaves the async handler: its promise rejects
Throw(s) == [s EXCEPT !.pc = "thrown"]

\* the check with && for || : one present variable passes it
Misconfigured_BothMissing(e) == ~Truthy(e.SUPABASE_URL) /\ ~Truthy(e.SUPABASE_ANON_KEY)

\* server.js:85
Misconfigured(e) == ~Truthy(e.SUPABASE_URL) \/ ~Truthy(e.SUPABASE_ANON_KEY)

\* the check without !query : the empty string goes on to the length check
NotNonEmptyString_TypeOnly(query) == query.t # "string"

\* server.js:71
NotNonEmptyString(query) == ~Truthy(query) \/ query.t # "string"

\* the upper limit compared with >= : a query of 500 characters is refused
LengthOutOfRange_Exclusive(trimmedQuery) ==
    Len(trimmedQuery) < 3 \/ Len(trimmedQuery) >= MAX_QUERY_LENGTH

\* server.js:79
LengthOutOfRange(trimmedQuery) ==
    Len(trimmedQuery) < 3 \/ Len(trimmedQuery) > MAX_QUERY_LENGTH

\* server.js:69-97: from the body to the call of getUser
validateAndAuthenticate(s, e) ==
    LET query == IF s.req.hasBody THEN s.req.query ELSE Undefined
    IN  IF NotNonEmptyString(query) THEN Respond(s, NotAString)
        ELSE LET trimmedQuery == trim(query.v)
                 s1 == [s EXCEPT !.trimmedQuery = trimmedQuery]
             IN  IF LengthOutOfRange(trimmedQuery) THEN Respond(s1, BadLength)
                 ELSE IF Misconfigured(e) THEN Respond(s1, ServerMisconfigured)
                 ELSE [s1 EXCEPT !.pc = "auth",
                                 !.calls.getUser = s.calls.getUser + 1]

\* the validation gate ahead of the rate check: a request answered 400 is not
\* counted
handleRequest_ValidateFirst(req, requestId, store, t, e) ==
    LET clientIp == getClientIp(req)
        s0       == [Idle EXCEPT !.req = req, !.requestId = requestId,
                                 !.xRequestId = requestId, !.clientIp = clientIp]
        v        == validateAndAuthenticate(s0, e)
        checked  == Truthy(clientIp) /\ v.resp.status # 400
        rl       == IF checked THEN isRateLimited(store, clientIp.v, t)
                    ELSE [limited |-> FALSE, store |-> store]
        rate     == IF ~checked THEN "skipped"
                    ELSE IF rl.limited THEN "denied" ELSE "allowed"
    IN  [store |-> rl.store,
         slot  |-> IF rl.limited THEN Respond([s0 EXCEPT !.rate = rate], TooManyRequests)
                   ELSE [v EXCEPT !.rate = rate]]

\* server.js:60-97: the handler up to its first await; the slot's new locals
\* and the store it leaves
handleRequest(req, requestId, store, t, e) ==
    LET clientIp == getClientIp(req)
        checked  == Truthy(clientIp)
        rl       == IF checked THEN isRateLimited(store, clientIp.v, t)
                    ELSE [limited |-> FALSE, store |-> store]
        s        == [Idle EXCEPT !.req = req, !.requestId = requestId,
                                 !.xRequestId = requestId,
                                 !.clientIp = clientIp,
                                 !.rate = IF ~checked THEN "skipped"
                                          ELSE IF rl.limited THEN "denied" ELSE "allowed"]
    IN  [store |-> rl.store,
         slot  |-> IF rl.limited THEN Respond(s, TooManyRequests)
                   ELSE validateAndAuthenticate(s, e)]

\* the check of authError alone: a result without a user passes
afterGetUser_ErrorOnly(s0, res) ==
    LET s == [s0 EXCEPT !.auth = res]
    IN
    IF res.settled = "rejected" \/ ~res.hasData THEN Throw(s)
    ELSE IF res.error # NoError THEN Respond(s, Unauthorized(res.error))
    ELSE [s EXCEPT !.pc = "fetch", !.user = res.user,
                   !.profile = Pending, !.resources = Pending,
                   !.calls.upsert = s.calls.upsert + 1,
                   !.calls.select = s.calls.select + 1]

\* server.js:94-118: the auth result is destructured and checked, then both
\* queries of Promise.all are started
afterGetUser(s0, res) ==
    LET s == [s0 EXCEPT !.auth = res]
    IN
    IF res.settled = "rejected" \/ ~res.hasData THEN Throw(s)
    ELSE IF res.error # NoError \/ ~Truthy(res.user) THEN Respond(s, Unauthorized(res.error))
    ELSE [s EXCEPT !.pc = "fetch", !.user = res.user,
                   !.profile = Pending, !.resources = Pending,
                   !.calls.upsert = s.calls.upsert + 1,
                   !.calls.select = s.calls.select + 1]

\* profileError is not looked at
afterFetch_ProfileIgnored(s) ==
    IF s.resources.error # NoError THEN Respond(s, ResourceFetchFailed(s.resources.error))
    ELSE [s EXCEPT !.pc = "log", !.insert = Pending,
                   !.calls.insert = s.calls.insert + 1]

\* resourceError is checked before profileError
afterFetch_ResourceFirst(s) ==
    IF s.resources.error # NoError THEN Respond(s, ResourceFetchFailed(s.resources.error))
    ELSE IF s.profile.error # NoError THEN Respond(s, ProfileSyncFailed(s.profile.error))
    ELSE [s EXCEPT !.pc = "log", !.insert = Pending,
                   !.calls.insert = s.calls.insert + 1]

\* server.js:120-137: both results are in; the checks and the call of insert
afterFetch(s) ==
    IF s.profile.error # NoError THEN Respond(s, ProfileSyncFailed(s.profile.error))
    ELSE IF s.resources.error # NoError THEN Respond(s, ResourceFetchFailed(s.resources.error))
    ELSE [s EXCEPT !.pc = "log", !.insert = Pending,
                   !.calls.insert = s.calls.insert + 1]

\* server.js:110-118: Promise.all rejects with the first rejection and resolves
\* once both promises have
afterPromiseAll(s) ==
    IF s.profile.settled = "rejected" \/ s.resources.settled = "rejected" THEN Throw(s)
    ELSE IF s.profile.settled = "pending" \/ s.resources.settled = "pending" THEN s
    ELSE afterFetch(s)

\* server.js:134-166: the insert result is checked and the answer assembled;
\* urlOk is whether every getPublicUrl call returned a data object
afterInsert(s, res, urlOk) ==
    IF res.settled = "rejected" THEN Throw([s EXCEPT !.insert = res])
    ELSE IF res.error # NoError THEN Respond([s EXCEPT !.insert = res], QueryLogFailed(res.error))
    ELSE IF ~urlOk /\ resourcesWithLinks(s.resources) # <<>> THEN Throw([s EXCEPT !.insert = res])
    ELSE Respond([s EXCEPT !.insert = res],
                 Success(s.requestId, s.trimmedQuery, s.resources))

----------------------------------------------------------------------------
(* Inputs *)

\* every string a client key may be
Keys == {"", "a", "b", "p", " a ", " a , b", ",a"}

XForwardedFor == {Undefined, Str(""), Str("a"), Str(" a , b"), Str(",a"), Str(" ,a")}

PeerAddresses == {Undefined, Str("p")}

Authorizations == {Undefined, Str("Bearer bad"), Str("Bearer good")}

InvalidQueries ==
    {Undefined, Null, Num(0), Num(42), Obj, Str(""), Str("ab"), Str("   "),
     Str(" ab\t\n"), Str(Rep("a", MAX_QUERY_LENGTH + 1)),
     Str(" " \o Rep("a", MAX_QUERY_LENGTH + 1))}

ValidQueries ==
    {Str("abc"), Str("  RAG basics  "), Str("\t" \o Rep("a", MAX_QUERY_LENGTH) \o " ")}

UUIDs == {"uuid-1", "uuid-2"}

Envs ==
    [SUPABASE_URL      : {Undefined, Str("https://project.supabase.co")},
     SUPABASE_ANON_KEY : {Undefined, Str("anon-key")}]

\* the instants Date.now() is read at: the start, one window length later and
\* 1 ms past that
ClockValues == {0, RATE_LIMIT_WINDOW_MS, RATE_LIMIT_WINDOW_MS + 1}

\* every instant of a clock
Instants == ClockValues \cup {1}

\* what becomes of a rejected handler promise: Express 4 leaves the request
\* unanswered, Express 5 answers with its default error page, and a Node that
\* throws on unhandled rejections ends the process
ThrowOutcomes == {"hang", "express5", "crash"}

\* the requests of a universe U: with a JSON body holding one of U.query, or
\* without a body
Requests(U) ==
    { [xff |-> x, ip |-> i, hasBody |-> TRUE, query |-> q, authorization |-> a] :
        x \in U.xff, i \in U.ip, q \in U.query, a \in U.authorization }
    \cup
    { [xff |-> x, ip |-> i, hasBody |-> FALSE, query |-> Undefined, authorization |-> a] :
        x \in U.xff, i \in U.ip, a \in U.bodyless }

----------------------------------------------------------------------------
(* Actions *)

\* the history after a rate check of key k at time t: a request more than 60 s
\* after the start of k's window, or the first of k, opens a window
Recorded(w, k, t) ==
    IF w[k].n = 0 \/ t - w[k].start > 60000
    THEN [w EXCEPT ![k] = [start |-> t, n |-> 1]]
    ELSE [w EXCEPT ![k].n = w[k].n + 1]

\* the slot's handler has run a segment and left locals s
Continue(r, s) ==
    IF s.pc = "thrown"
    THEN \E how \in ThrowOutcomes :
            /\ reqs' = [reqs EXCEPT ![r] =
                          IF how = "express5"
                          THEN [s EXCEPT !.resp = RawException, !.nresp = s.nresp + 1]
                          ELSE s]
            /\ serverUp' = (how # "crash")
    ELSE /\ reqs' = [reqs EXCEPT ![r] = s]
         /\ serverUp' = serverUp

\* app.post("/ask-jiji", ...): a request arrives on the lowest free connection
\* slot and runs to its first await
PostAskJiji(r, U) ==
    /\ serverUp
    /\ reqs[r].pc = "idle"
    /\ \A q \in U.slots : q < r => reqs[q].pc # "idle"
    /\ \E req \in Requests(U), requestId \in U.uuid :
          LET h == handleRequest(req, requestId, rateLimitStore, now, env)
              w == IF h.slot.rate = "skipped" THEN windowRequests
                   ELSE Recorded(windowRequests, h.slot.clientIp.v, now)
          IN  /\ \A k \in Keys : h.store[k].count <= MaxCount /\ w[k].n <= MaxCount
              /\ rateLimitStore' = h.store
              /\ windowRequests' = w
              /\ allowedAt' = IF U.history /\ h.slot.rate = "allowed"
                              THEN [allowedAt EXCEPT ![h.slot.clientIp.v][now] = @ + 1]
                              ELSE allowedAt
              /\ reqs' = [reqs EXCEPT ![r] =
                            [h.slot EXCEPT
                                !.nth = IF h.slot.rate = "skipped" THEN 0
                                        ELSE w[h.slot.clientIp.v].n,
                                !.before = IF h.slot.rate = "skipped" THEN NoEntry
                                           ELSE rateLimitStore[h.slot.clientIp.v],
                                !.observed = IF h.slot.rate = "skipped" THEN NoEntry
                                             ELSE h.store[h.slot.clientIp.v]]]
    /\ UNCHANGED <<now, env, serverUp>>

\* await supabase.auth.getUser() settles
GetUserSettles(r) ==
    /\ serverUp
    /\ reqs[r].pc = "auth"
    /\ \E res \in AuthResults(reqs[r].req.authorization) :
          Continue(r, afterGetUser(reqs[r], res))
    /\ UNCHANGED <<rateLimitStore, now, env, windowRequests, allowedAt>>

\* the profiles upsert of Promise.all settles
UpsertSettles(r) ==
    /\ serverUp
    /\ reqs[r].pc = "fetch"
    /\ reqs[r].profile.settled = "pending"
    /\ \E res \in WriteResults :
          Continue(r, afterPromiseAll([reqs[r] EXCEPT !.profile = res]))
    /\ UNCHANGED <<rateLimitStore, now, env, windowRequests, allowedAt>>

\* the resources select of Promise.all settles
SelectSettles(r) ==
    /\ serverUp
    /\ reqs[r].pc = "fetch"
    /\ reqs[r].resources.settled = "pending"
    /\ \E res \in SelectResults :
          Continue(r, afterPromiseAll([reqs[r] EXCEPT !.resources = res]))
    /\ UNCHANGED <<rateLimitStore, now, env, windowRequests, allowedAt>>

\* await supabase.from("queries").insert(...) settles
InsertSettles(r) ==
    /\ serverUp
    /\ reqs[r].pc = "log"
    /\ \E res \in WriteResults, urlOk \in BOOLEAN :
          Continue(r, afterInsert(reqs[r], res, urlOk))
    /\ UNCHANGED <<rateLimitStore, now, env, windowRequests, allowedAt>>

\* the connection ends and its slot takes the next request
Close(r) ==
    /\ reqs[r].pc \in {"done", "thrown"}
    /\ reqs' = [reqs EXCEPT ![r] = Idle]
    /\ UNCHANGED <<rateLimitStore, now, env, serverUp, windowRequests, allowedAt>>

\* time passes
Tick(U) ==
    /\ \E t \in U.clock : t > now /\ now' = t
    /\ UNCHANGED <<rateLimitStore, reqs, env, serverUp, windowRequests, allowedAt>>

InitU(U) ==
    /\ rateLimitStore = [k \in Keys |-> NoEntry]
    /\ now = 0
    /\ reqs = [r \in U.slots |-> Idle]
    /\ env \in U.env
    /\ serverUp = TRUE
    /\ windowRequests = [k \in Keys |-> [start |-> 0, n |-> 0]]
    /\ allowedAt = [k \in Keys |-> [t \in Instants |-> 0]]

NextU(U) ==
    \/ \E r \in U.slots : PostAskJiji(r, U)
    \/ \E r \in U.slots : GetUserSettles(r)
    \/ \E r \in U.slots : UpsertSettles(r)
    \/ \E r \in U.slots : SelectSettles(r)
    \/ \E r \in U.slots : InsertSettles(r)
    \/ \E r \in U.slots : Close(r)
    \/ Tick(U)

----------------------------------------------------------------------------
(* Specifications *)

\* the whole pipeline with every kind of body and credential; the client key
\* is the forwarded address or none
Pipeline ==
    [slots |-> {1}, xff |-> {Str(""), Str(" a , b")}, ip |-> {Undefined},
     query |-> InvalidQueries \cup ValidQueries, authorization |-> Authorizations,
     bodyless |-> Authorizations, uuid |-> UUIDs, env |-> Envs, clock |-> ClockValues,
     history |-> FALSE]

Init == InitU(Pipeline)
Next == NextU(Pipeline)
Spec == Init /\ [][Next]_vars

\* the rate limiter under callers without a credential, with every way a
\* client key is derived
Limiter ==
    [slots |-> {1}, xff |-> {Undefined, Str(" a , b"), Str(" ,a")}, ip |-> PeerAddresses,
     query |-> {Str("ab"), Str(" abc ")}, authorization |-> {Undefined},
     bodyless |-> {Undefined}, uuid |-> {"uuid-1"},
     env |-> {e \in Envs : ~Misconfigured(e)}, clock |-> ClockValues, history |-> FALSE]

InitLimiter == InitU(Limiter)

NextLimiter ==
    \/ \E r \in Limiter.slots : PostAskJiji(r, Limiter)
    \/ \E r \in Limiter.slots : GetUserSettles(r)
    \/ \E r \in Limiter.slots : Close(r)
    \/ Tick(Limiter)

SpecLimiter == InitLimiter /\ [][NextLimiter]_vars

\* one client key under bursts of requests without a body, at the start of a
\* window, 1 ms into it, at its end and 1 ms after it, with the history of the
\* instants at which requests passed the rate check
Burst ==
    [slots |-> {1}, xff |-> {Str("a")}, ip |-> {Undefined}, query |-> {},
     authorization |-> {Undefined}, bodyless |-> {Undefined}, uuid |-> {"uuid-1"},
     env |-> {e \in Envs : ~Misconfigured(e)}, clock |-> Instants, history |-> TRUE]

InitBurst == InitU(Burst)

NextBurst ==
    \/ \E r \in Burst.slots : PostAskJiji(r, Burst)
    \/ \E r \in Burst.slots : Close(r)
    \/ Tick(Burst)

SpecBurst == InitBurst /\ [][NextBurst]_vars

\* one client key with as many connections as a window allows requests and one
\* more, every request valid and waiting for the auth collaborator, which
\* answers one connection only, the last a window admits: the others stay in
\* flight
InFlight ==
    [slots |-> 1..(RATE_LIMIT_MAX_REQUESTS + 1), xff |-> {Str("a")}, ip |-> {Undefined},
     query |-> {Str("abc")}, authorization |-> {Undefined}, bodyless |-> {},
     uuid |-> {"uuid-1"}, env |-> {e \in Envs : ~Misconfigured(e)},
     clock |-> {0, RATE_LIMIT_WINDOW_MS + 1}, history |-> FALSE]

\* the connections whose collaborator calls are answered
Answered == {RATE_LIMIT_MAX_REQUESTS}

InitInFlight == InitU(InFlight)

NextInFlight ==
    \/ \E r \in InFlight.slots : PostAskJiji(r, InFlight)
    \/ \E r \in Answered : GetUserSettles(r)
    \/ \E r \in InFlight.slots : Close(r)
    \/ Tick(InFlight)

SpecInFlight == InitInFlight /\ [][NextInFlight]_vars

----------------------------------------------------------------------------
(* Claims *)

Slots == DOMAIN reqs

\* the handler has ended: it returned a response or its promise rejected
Ended(s) == s.pc \in {"done", "thrown"}

\* C1: in every 60 s window of a client key, the request that opens the window
\* and the next 29 requests with that key are allowed (not answered 429), and
\* the 31st request with that key in the window is denied with 429.
C1_ThirtyAllowedThenDenied ==
    \A r \in Slots :
        LET s == reqs[r]
        IN  /\ s.nth \in 1..30 => s.rate = "allowed" /\ s.resp.status # 429
            /\ s.nth = 31 => s.rate = "denied" /\ s.pc = "done" /\ s.resp = TooManyRequests

\* the 31st request of a window has been denied, its key's window still open
C1_Witness ==
    \E r \in Slots :
        /\ reqs[r].nth = 31
        /\ reqs[r].resp.status = 429
        /\ now = windowRequests[reqs[r].clientIp.v].start + 60000

\* the number of leading white-space characters of a string
LeadingSpace(str) ==
    CHOOSE n \in 0..Len(str) :
        /\ \A m \in 1..n : SubSeq(str, m, m) \in {" ", "\t", "\n"}
        /\ n < Len(str) => SubSeq(str, n + 1, n + 1) \notin {" ", "\t", "\n"}

\* the number of trailing white-space characters of a string
TrailingSpace(str) ==
    CHOOSE n \in 0..Len(str) :
        /\ \A m \in 1..n : SubSeq(str, Len(str) + 1 - m, Len(str) + 1 - m) \in {" ", "\t", "\n"}
        /\ n < Len(str) => SubSeq(str, Len(str) - n, Len(str) - n) \notin {" ", "\t", "\n"}

\* a string without its leading and trailing white space
Stripped(str) ==
    IF LeadingSpace(str) = Len(str) THEN ""
    ELSE SubSeq(str, LeadingSpace(str) + 1, Len(str) - TrailingSpace(str))

\* the request carries a textual query
Textual(s) == s.req.hasBody /\ s.req.query.t = "string"

\* the request's query is text of 3 to 500 characters once stripped
ValidQuery(s) ==
    /\ Textual(s)
    /\ Len(Stripped(s.req.query.v)) >= 3
    /\ Len(Stripped(s.req.query.v)) <= 500

\* the auth collaborator returned a result that reports an error or no user
AuthRefused(s) ==
    /\ s.auth.settled = "resolved"
    /\ s.auth.hasData
    /\ (s.auth.error # NoError \/ s.auth.user = Null)

\* the base URL or the public key of the collaborator is absent
ConfigAbsent ==
    env.SUPABASE_URL = Undefined \/ env.SUPABASE_ANON_KEY = Undefined

\* C2 as stated: a request without a valid bearer credential is answered 401
\* whether its query is valid or not (here on a configured server).
C2_Original ==
    \A r \in Slots :
        LET s == reqs[r]
        IN  ~ConfigAbsent /\ s.pc = "done" /\ s.req.authorization # Str("Bearer good")
                => s.resp.status = 401

\* C2: a request that has passed the rate check, the validation and the
\* configuration check, and for which the auth collaborator returns a result
\* reporting an error or no user, is answered 401; only such a request is
\* answered 401 (one that fails an earlier gate is answered 429, 400 or 500
\* whatever its credential).
C2_UnauthorizedAfterEarlierGates ==
    \A r \in Slots :
        LET s == reqs[r]
        IN  /\ AuthRefused(s) =>
                /\ s.pc = "done"
                /\ s.resp.status = 401
                /\ s.calls = [NoCalls EXCEPT !.getUser = 1]
            /\ s.resp.status = 401 =>
                /\ AuthRefused(s)
                /\ s.rate # "denied"
                /\ ValidQuery(s)
                /\ ~Misconfigured(env)

\* a request without an Authorization header, its query valid, was answered 401
\* because the collaborator returned no user and no error
C2_Witness ==
    \E r \in Slots :
        /\ reqs[r].req.authorization = Undefined
        /\ reqs[r].auth.error = NoError
        /\ AuthRefused(reqs[r])
        /\ reqs[r].resp.status = 401

\* a query returned a result (its promise resolved)
Returned(res) == res.settled = "resolved"

\* a query returned a result that reports an error
Failed(res) == Returned(res) /\ res.error # NoError

\* a query returned a result that reports no error
Succeeded(res) == Returned(res) /\ res.error = NoError

\* C3: within one request the query-log insert is issued only after both the
\* profile upsert and the resource search have returned and both succeeded;
\* when the profile upsert has failed and the search has returned, the request
\* has ended with 500 'Failed to sync profile.' whose details are the
\* collaborator's message, no resource is in the response, and no query-log
\* insert was issued.
C3_LogOnlyAfterBothSucceeded ==
    \A r \in Slots :
        LET s == reqs[r]
        IN  /\ s.calls.insert > 0 => Succeeded(s.profile) /\ Succeeded(s.resources)
            /\ Failed(s.profile) => s.calls.insert = 0 /\ s.insert = NotCalled
            /\ Failed(s.profile) /\ Returned(s.resources) =>
                /\ s.pc = "done"
                /\ s.resp = [status |-> 500,
                             body   |-> [error   |-> "Failed to sync profile.",
                                         details |-> s.profile.error]]

\* the profile upsert failed while the search found resources
C3_Witness ==
    \E r \in Slots :
        /\ Failed(reqs[r].profile)
        /\ Succeeded(reqs[r].resources)
        /\ reqs[r].resources.rows # <<>>
        /\ reqs[r].resp.status = 500
        /\ reqs[r].calls.insert = 0

\* C4 as stated: if the resource search fails, the request is rejected with
\* 500 'Failed to fetch resources.' whether the profile upsert succeeded or
\* failed.
C4_Original ==
    \A r \in Slots :
        LET s == reqs[r]
        IN  Failed(s.resources) /\ Returned(s.profile) =>
                s.resp.status = 500 /\ s.resp.body.error = "Failed to fetch resources."

\* C4: if the resource search fails and the profile upsert succeeded, the
\* request is rejected with 500 'Failed to fetch resources.' and the search's
\* message as details; if both fail it is rejected with 500 'Failed to sync
\* profile.'; in either case no query-log insert is issued.
C4_ResourceFetchFailedUnlessProfileFailed ==
    \A r \in Slots :
        LET s == reqs[r]
        IN  Failed(s.resources) /\ Returned(s.profile) =>
                /\ s.pc = "done"
                /\ s.calls.insert = 0
                /\ Succeeded(s.profile) =>
                      s.resp = [status |-> 500,
                                body   |-> [error   |-> "Failed to fetch resources.",
                                            details |-> s.resources.error]]
                /\ Failed(s.profile) =>
                      s.resp.status = 500 /\ s.resp.body.error = "Failed to sync profile."

\* the search failed, once after a successful upsert
C4_Witness ==
    \E r \in Slots :
        /\ Failed(reqs[r].resources)
        /\ Succeeded(reqs[r].profile)
        /\ reqs[r].resp.body.error = "Failed to fetch resources."

\* the request went through the validation gate
Validated(s) == s.pc # "idle" /\ s.rate # "denied"

\* C5: for every string s supplied as the query, the validation gate accepts
\* (does not answer 400) if and only if 3 <= len(trim(s)) <= 500, trim removing
\* the leading and trailing white space and being idempotent; the value passed
\* on to the later steps is exactly trim(s).
C5_AcceptsIffTrimmedLengthInRange ==
    \A r \in Slots :
        LET s == reqs[r]
            q == s.req.query.v
        IN  Validated(s) /\ Textual(s) =>
                /\ s.resp.status # 400 <=> (Len(Stripped(q)) >= 3 /\ Len(Stripped(q)) <= 500)
                /\ s.resp.status # 400 => s.trimmedQuery = Stripped(q)
                /\ trim(q) = Stripped(q)
                /\ trim(trim(q)) = trim(q)

\* a padded query of exactly 500 characters after trimming was accepted and
\* passed on trimmed
C5_Witness ==
    \E r \in Slots :
        /\ Textual(reqs[r])
        /\ Len(reqs[r].req.query.v) = 502
        /\ Len(reqs[r].trimmedQuery) = 500
        /\ reqs[r].pc = "auth"

\* the two 400 bodies
NotAStringText == "Query must be a non-empty string."
LengthText == "Query must be between 3 and 500 characters."

\* C6 as stated: the NotAString reason is reported exactly when the query is
\* missing or not textual, and every textual query whose trimmed length is
\* below 3 or above 500 gets the length reason, those of length 0 included.
C6_Original ==
    \A r \in Slots :
        LET s == reqs[r]
        IN  Validated(s) =>
                /\ (s.resp.status = 400 /\ s.resp.body.error = NotAStringText) <=> ~Textual(s)
                /\ Textual(s) /\ ~ValidQuery(s) =>
                      s.resp.status = 400 /\ s.resp.body.error = LengthText

\* C6: the NotAString reason is reported exactly when the query is missing, not
\* textual or the empty string; every non-empty textual query is trimmed first
\* and gets the length reason exactly when its trimmed length is below 3 or
\* above 500 (textual inputs of length 1 or 2 and white space alone included).
C6_ReasonsOfRejection ==
    \A r \in Slots :
        LET s == reqs[r]
            empty == Textual(s) /\ s.req.query.v = ""
        IN  Validated(s) =>
                /\ (s.resp.status = 400 /\ s.resp.body.error = NotAStringText)
                      <=> (~Textual(s) \/ empty)
                /\ (s.resp.status = 400 /\ s.resp.body.error = LengthText)
                      <=> (Textual(s) /\ ~empty /\ ~ValidQuery(s))
                /\ s.resp.status = 400 => s.resp.body.details = NoDetails /\ s.calls = NoCalls

\* white space alone, three characters long, got the length reason
C6_Witness ==
    \E r \in Slots :
        /\ Textual(reqs[r])
        /\ reqs[r].req.query.v = "   "
        /\ reqs[r].resp.status = 400
        /\ reqs[r].resp.body.error = LengthText

\* C7 as stated: with the base URL or the public key absent, every request
\* ends in 500 'Server misconfiguration...'.
C7_Original ==
    ConfigAbsent =>
        \A r \in Slots : reqs[r].pc = "done" => reqs[r].resp = ServerMisconfigured

\* C7: with the base URL or the public key absent, every request that passes
\* the rate check and the validation ends in 500 'Server misconfiguration...'
\* (one that does not is answered 429 or 400), the process keeps serving, and
\* no auth, data or storage collaborator call is made.
C7_MisconfiguredAfterEarlierGates ==
    ConfigAbsent =>
        /\ serverUp
        /\ \A r \in Slots :
              LET s == reqs[r]
              IN  /\ s.calls = NoCalls
                  /\ s.pc \in {"idle", "done"}
                  /\ s.pc = "done" =>
                        /\ s.resp.status \in {429, 400, 500}
                        /\ s.resp.status = 429 <=> s.rate = "denied"
                        /\ s.resp.status = 400 <=> (s.rate # "denied" /\ ~ValidQuery(s))
                        /\ s.resp.status = 500 =>
                              s.resp.body = [error   |-> "Server misconfiguration. Missing Supabase environment variables.",
                                             details |-> NoDetails]

\* only the public key is absent and a valid query was answered 500
C7_Witness ==
    /\ env.SUPABASE_URL # Undefined
    /\ env.SUPABASE_ANON_KEY = Undefined
    /\ \E r \in Slots :
          /\ ValidQuery(reqs[r])
          /\ reqs[r].req.authorization = Str("Bearer good")
          /\ reqs[r].resp.status = 500

\* C8 as stated: each request sends exactly one response; each collaborator
\* operation is invoked at most once per request; once a step has failed no
\* later step's operation is started; and 200 is sent only if the rate check,
\* the validation, the configuration check, the authentication, the profile
\* upsert, the resource search and the query-log insert all succeeded.
C8_AllOrNothing ==
    \A r \in Slots :
        LET s == reqs[r]
        IN  /\ s.nresp <= 1
            /\ Ended(s) => s.nresp = 1
            /\ \A c \in DOMAIN s.calls : s.calls[c] <= 1
            /\ s.rate = "denied" \/ (s.pc # "idle" /\ ~ValidQuery(s)) \/ Misconfigured(env)
                  => s.calls = NoCalls
            /\ ~(Returned(s.auth) /\ s.auth.error = NoError /\ s.auth.user # Null)
                  => s.calls.upsert = 0 /\ s.calls.select = 0 /\ s.calls.insert = 0
            /\ ~(Succeeded(s.profile) /\ Succeeded(s.resources)) => s.calls.insert = 0
            /\ s.resp.status = 200 =>
                  /\ s.rate # "denied"
                  /\ ValidQuery(s)
                  /\ ~Misconfigured(env)
                  /\ Returned(s.auth) /\ s.auth.error = NoError /\ s.auth.user # Null
                  /\ Succeeded(s.profile)
                  /\ Succeeded(s.resources)
                  /\ Succeeded(s.insert)
                  /\ s.calls = [getUser |-> 1, upsert |-> 1, select |-> 1, insert |-> 1]

\* C9 as stated: on every failure of a request, a collaborator call that
\* rejects or returns a malformed result included, the caller receives a
\* structured {error, details?} JSON body with a 4xx/5xx status, never a raw
\* internal exception and never no response.
C9_StructuredErrorOnEveryFailure ==
    \A r \in Slots :
        LET s == reqs[r]
        IN  Ended(s) /\ s.resp.status # 200 =>
                /\ s.nresp = 1
                /\ s.resp.status \in 400..599
                /\ s.resp # RawException
                /\ s.resp.body.error # ""

\* C10: the details field of an error body is present only in the outcomes
\* ProfileSyncFailed, ResourceFetchFailed and QueryLogFailed; a 429, 400 or 401
\* response has none, and the 401 body is the same whatever the auth
\* collaborator reported.
C10_DetailsOnlyDownstream ==
    \A r \in Slots :
        LET s == reqs[r]
        IN  s.nresp > 0 /\ s.resp.status # 200 =>
                /\ s.resp.body.details # NoDetails =>
                      /\ s.resp.status = 500
                      /\ s.resp.body.error \in {"Failed to sync profile.",
                                                "Failed to fetch resources.",
                                                "Failed to save query."}
                /\ s.resp.status \in {429, 400, 401} => s.resp.body.details = NoDetails
                /\ s.resp.status = 401 =>
                      s.resp.body =
                          [error   |-> "Unauthorized. Provide a valid Supabase JWT in the Authorization header.",
                           details |-> NoDetails]

\* the auth collaborator reported an error text and the request was answered
\* 401
C10_Witness ==
    \E r \in Slots :
        /\ reqs[r].auth.error = "invalid JWT"
        /\ reqs[r].resp.status = 401

\* the records the search returned: none when its data is null
Found(s) == IF s.resources.isNull THEN <<>> ELSE s.resources.rows

\* C11: a 200 response has one entry per record the search returned, in the
\* same order; an entry copies id, title, description and type, its url is the
\* storage collaborator's public URL of the record's storage_path, and it has
\* no storage_path; a null result gives an empty list; the answer is the fixed
\* text around the trimmed query.
C11_ResourcesAndAnswer ==
    \A r \in Slots :
        LET s   == reqs[r]
            out == s.resp.body.resources
        IN  s.resp.status = 200 =>
                /\ Len(out) = Len(Found(s))
                /\ s.resources.isNull => out = <<>>
                /\ \A i \in 1..Len(out) :
                      /\ DOMAIN out[i] = {"id", "title", "description", "type", "url"}
                      /\ out[i].id = Found(s)[i].id
                      /\ out[i].title = Found(s)[i].title
                      /\ out[i].description = Found(s)[i].description
                      /\ out[i].type = Found(s)[i].type
                      /\ out[i].url = getPublicUrl(Found(s)[i].storage_path)
                      /\ out[i].url # Found(s)[i].storage_path
                /\ s.resp.body.answer =
                      "Here's a quick overview for: \"" \o Stripped(s.req.query.v)
                          \o "\". Review the resources below for deeper learning."

\* a 200 response for a search that returned two records, and for a query with
\* white space around it
C11_Witness ==
    \E r \in Slots :
        /\ reqs[r].resp.status = 200
        /\ reqs[r].resources.rows = <<Video, Deck>>
        /\ reqs[r].resp.body.resources[1].id = "r2"
        /\ reqs[r].req.query = Str("  RAG basics  ")

\* C12: every response, on every outcome path (200, 400, 401, 429 and each
\* 500), goes out with the X-Request-Id header set to the identifier generated
\* for its request, and the body of a 200 response carries the same identifier
\* as requestId.
C12_RequestIdOnEveryResponse ==
    \A r \in Slots :
        LET s == reqs[r]
        IN  s.nresp >= 1 =>
                /\ s.xRequestId \in UUIDs
                /\ s.xRequestId = s.requestId
                /\ s.resp.status = 200 => s.resp.body.requestId = s.xRequestId

\* a 200 response whose request was given the second identifier
C12_Witness ==
    \E r \in Slots :
        /\ reqs[r].resp.status = 200
        /\ reqs[r].xRequestId = "uuid-2"
        /\ reqs[r].resp.body.requestId = "uuid-2"

\* the position of the first comma of a string, one past its end if it has none
CommaAt(str) ==
    CHOOSE n \in 1..(Len(str) + 1) :
        /\ n <= Len(str) => SubSeq(str, n, n) = ","
        /\ \A m \in 1..(n - 1) : SubSeq(str, m, m) # ","

\* the first comma-separated element of a header, its surrounding white space
\* removed
FirstElement(str) == Stripped(SubSeq(str, 1, CommaAt(str) - 1))

\* the client key of a request: the first forwarded address if the header has
\* one, the peer address otherwise
ClientKey(req) ==
    IF req.xff.t = "string" /\ FirstElement(req.xff.v) # ""
    THEN Str(FirstElement(req.xff.v))
    ELSE req.ip

\* a client key can be derived for the request
HasKey(req) == ClientKey(req).t = "string" /\ ClientKey(req).v # ""

\* the request is over its window's limit: more than 30 rate checks with its
\* key were made in the window before it
OverLimit(s) == HasKey(s.req) /\ s.nth > 30

\* the outcome of a request is that of the first failing step in the order
\* rate check, validation, configuration check, authentication, parallel
\* fetch, query log; no later step is attempted
FirstFailingStepDecides(s) ==
    /\ OverLimit(s) =>
            s.resp.status = 429 /\ s.calls = NoCalls
    /\ ~OverLimit(s) /\ ~ValidQuery(s) =>
            s.resp.status = 400 /\ s.calls = NoCalls
    /\ ~OverLimit(s) /\ ValidQuery(s) /\ ConfigAbsent =>
            /\ s.resp.status = 500
            /\ s.resp.body.error = "Server misconfiguration. Missing Supabase environment variables."
            /\ s.calls = NoCalls
    /\ ~OverLimit(s) /\ ValidQuery(s) /\ ~ConfigAbsent => s.calls.getUser = 1
    /\ AuthRefused(s) =>
            s.resp.status = 401 /\ s.calls.upsert = 0 /\ s.calls.select = 0
    /\ Returned(s.profile) /\ Returned(s.resources)
          /\ (Failed(s.profile) \/ Failed(s.resources)) =>
            /\ s.resp.status = 500
            /\ s.resp.body.error \in {"Failed to sync profile.", "Failed to fetch resources."}
            /\ s.calls.insert = 0
    /\ Failed(s.insert) =>
            s.resp.status = 500 /\ s.resp.body.error = "Failed to save query."
    /\ s.calls.upsert > 0 \/ s.calls.select > 0 =>
            s.calls.getUser = 1 /\ ~AuthRefused(s) /\ Returned(s.auth)
    /\ s.calls.getUser > 0 => ~OverLimit(s) /\ ValidQuery(s) /\ ~ConfigAbsent
    /\ s.resp.status = 200 =>
            Succeeded(s.profile) /\ Succeeded(s.resources) /\ Succeeded(s.insert)

\* the store counts, per key, every rate check the history has recorded
EveryCheckCounted ==
    \A k \in Keys :
        /\ rateLimitStore[k].count = windowRequests[k].n
        /\ windowRequests[k].n > 0 => rateLimitStore[k].windowStart = windowRequests[k].start

\* C13 as stated: the first failing step decides the outcome, a request over
\* the limit gets 429 whatever its query and credential, and every request,
\* those answered 400, 401 or 500 included, is counted in a rate-limit window.
C13_Original ==
    /\ EveryCheckCounted
    /\ \A r \in Slots :
          reqs[r].pc # "idle" => FirstFailingStepDecides(reqs[r]) /\ reqs[r].nth >= 1

\* C13: the first failing step decides the outcome, a request over the limit
\* gets 429 whatever its query and credential, and every request for which a
\* client key can be derived, those answered 400, 401 or 500 included, is
\* counted in its key's window; a request without a key is counted nowhere.
C13_FirstFailingStepDecides ==
    /\ EveryCheckCounted
    /\ \A r \in Slots :
          LET s == reqs[r]
          IN  s.pc # "idle" =>
                /\ FirstFailingStepDecides(s)
                /\ HasKey(s.req) => s.nth >= 1
                /\ ~HasKey(s.req) => s.nth = 0 /\ s.rate = "skipped"

\* the 31st request of a window carried an invalid query and no credential
\* and was answered 429, and it was counted
C13_Witness ==
    \E r \in Slots :
        LET s == reqs[r]
        IN  /\ s.nth = 31
            /\ ~ValidQuery(s)
            /\ s.req.authorization = Undefined
            /\ s.resp.status = 429
            /\ rateLimitStore[ClientKey(s.req).v].count = 31

\* the table has an entry for key k
InTable(store, k) == store[k] # [windowStart |-> -1, count |-> 0]

\* slot r takes a request in this step
Arrives(r) == reqs[r].pc = "idle" /\ reqs'[r].pc # "idle"

\* every entry counts the rate checks made with its key since its windowStart,
\* the denied ones included, and a request after the 30th of its window is
\* denied
CountsEveryCheck ==
    /\ \A k \in Keys :
          InTable(rateLimitStore, k) =>
              /\ rateLimitStore[k].count >= 1
              /\ rateLimitStore[k].count = windowRequests[k].n
              /\ rateLimitStore[k].windowStart = windowRequests[k].start
    /\ \A r \in Slots :
          reqs[r].nth > 30 => reqs[r].rate = "denied" /\ reqs[r].resp.status = 429

\* a step removes no entry, and changes the entry of a key only by a rate
\* check of a request with that key
OnlyOwnEntryChanges ==
    \A k \in Keys :
        /\ InTable(rateLimitStore, k) => InTable(rateLimitStore', k)
        /\ rateLimitStore'[k] # rateLimitStore[k] =>
              \E r \in Slots : Arrives(r) /\ ClientKey(reqs'[r].req) = Str(k)

\* C14: in every reachable state, for every key k in the table, count(k) >= 1
\* and count(k) is the number of rate checks made with k since windowStart(k),
\* denied ones included; a rate check for k changes no other key's entry and
\* no entry is ever removed; so once a key is denied, every later request with
\* it in the same window is denied.
C14_CountIsChecksSinceWindowStart == []CountsEveryCheck /\ [][OnlyOwnEntryChanges]_vars

\* two keys are in the table, one of them denied twice in its window while the
\* other has been checked once
C14_Witness ==
    /\ rateLimitStore["a"].count = 32
    /\ rateLimitStore["p"].count = 1
    /\ \E r \in Slots : reqs[r].nth = 32 /\ reqs[r].resp.status = 429

\* a window just opened by a request arriving now
Opened == [windowStart |-> now, count |-> 1]

\* the rate check of an arriving request with a key replaces the key's window
\* if the request comes more than 60 s after windowStart, and then the request
\* is allowed; otherwise it leaves windowStart alone and adds one to count; a
\* windowStart changes in no other way
ReplacedWhenOlderThanWindow ==
    /\ \A r \in Slots :
          Arrives(r) /\ HasKey(reqs'[r].req) =>
              LET k == ClientKey(reqs'[r].req).v
                  e == rateLimitStore[k]
              IN  IF ~InTable(rateLimitStore, k) \/ now - e.windowStart > 60000
                  THEN /\ rateLimitStore'[k] = Opened
                       /\ reqs'[r].rate = "allowed"
                       /\ reqs'[r].resp.status # 429
                  ELSE /\ rateLimitStore'[k].windowStart = e.windowStart
                       /\ rateLimitStore'[k].count = e.count + 1
    /\ \A k \in Keys :
          rateLimitStore'[k].windowStart # rateLimitStore[k].windowStart =>
              /\ ~InTable(rateLimitStore, k) \/ now - rateLimitStore[k].windowStart > 60000
              /\ \E r \in Slots : Arrives(r) /\ ClientKey(reqs'[r].req) = Str(k)

\* C15: the window of a key is replaced exactly when a request with that key
\* arrives strictly more than 60 s after windowStart (one arriving exactly
\* 60 s after it is still counted in the old window); the replacing request
\* sets windowStart to its arrival time and count to 1 and is allowed, even if
\* the old window was over the ceiling; a request inside the window leaves
\* windowStart unchanged, so a denied client is admitted again by its first
\* request more than 60 s after the first request of the window.
C15_WindowReplacedAfter60s == [][ReplacedWhenOlderThanWindow]_vars

\* a key denied twice in the window opened at 0 was admitted at 60001 by the
\* request that replaced the window
C15_Witness ==
    \E r \in Slots :
        LET s == reqs[r]
        IN  /\ s.before = [windowStart |-> 0, count |-> 32]
            /\ s.rate = "allowed"
            /\ s.nth = 1
            /\ rateLimitStore[ClientKey(s.req).v] = [windowStart |-> 60001, count |-> 1]

\* the sum of f over the set S
RECURSIVE SumOver(_, _)
SumOver(f, S) ==
    IF S = {} THEN 0
    ELSE LET t == CHOOSE x \in S : TRUE
         IN  f[t] + SumOver(f, S \ {t})

\* the requests with key k that passed the rate check in the 60 s from a on
AllowedFrom(k, a) ==
    SumOver(allowedAt[k], {t \in Instants : a <= t /\ t <= a + 60000})

\* the most requests with key k that passed the rate check within 60 s
AllowedWithin60s(k) ==
    CHOOSE n \in {AllowedFrom(k, a) : a \in Instants} :
        \A a \in Instants : AllowedFrom(k, a) <= n

\* the burst that straddles the boundary of the window opened at 0 as closely
\* as the limiter admits: all 30 requests the first window allows, those after
\* its opening request at the window's end, and all 30 of the next window at
\* its start, 1 ms later
StraddlingBurst(k) ==
    /\ allowedAt[k][0] = 1
    /\ allowedAt[k][1] = 0
    /\ allowedAt[k][60000] = 29
    /\ allowedAt[k][60001] = 30

\* C16 as stated: for every key and every 60 s interval at most 2 x 30 = 60
\* requests are allowed, and the burst straddling a window boundary reaches
\* this bound: its 60 allowed requests lie within 60 s.
C16_Original ==
    \A k \in Keys :
        /\ AllowedWithin60s(k) <= 60
        /\ StraddlingBurst(k) => AllowedWithin60s(k) = 60

\* C16: for every key and every 60 s interval at most 2 x 30 - 1 = 59 requests
\* are allowed: the request that opens a window is more than 60 s before the
\* one that opens the next.
C16_AtMost59Within60s == \A k \in Keys : AllowedWithin60s(k) <= 59

\* the straddling burst has been made: 29 requests allowed at the end of one
\* window and 30 at the start of the next, 59 within 60 s
C16_Witness ==
    /\ StraddlingBurst("a")
    /\ AllowedWithin60s("a") = 59
    /\ AllowedFrom("a", 0) = 30

\* the request of a slot is in flight: its handler waits at an await
Waiting(s) == s.pc \in {"auth", "fetch", "log"}

\* C17: with any number of requests in flight, interleaved at their awaits,
\* each rate check is atomic: the k-th request to arrive with a key in a window
\* observes count = k, no two requests of a window observe the same count, and
\* the 31st is denied even if none of the first 30 has finished.
C17_RateCheckAtomic ==
    /\ \A r \in Slots :
          LET s == reqs[r]
          IN  s.pc # "idle" /\ s.rate # "skipped" =>
                /\ s.observed.count = s.nth
                /\ s.nth <= 30 => s.rate = "allowed"
                /\ s.nth = 31 => s.rate = "denied" /\ s.resp.status = 429
    /\ \A r1, r2 \in Slots :
          /\ r1 # r2
          /\ reqs[r1].pc # "idle" /\ reqs[r2].pc # "idle"
          /\ reqs[r1].rate # "skipped" /\ reqs[r1].clientIp = reqs[r2].clientIp
          /\ reqs[r1].observed.windowStart = reqs[r2].observed.windowStart
          => reqs[r1].observed.count # reqs[r2].observed.count

\* the 31st request of a window was denied while the 30 before it are all
\* still waiting for the auth collaborator
C17_Witness ==
    /\ \A r \in 1..30 : Waiting(reqs[r]) /\ reqs[r].nth = r /\ reqs[r].nresp = 0
    /\ reqs[31].nth = 31
    /\ reqs[31].resp.status = 429

\* a query is in progress: called and not settled
InProgress(res) == res.settled = "pending"

\* the profile upsert and the resource search are started together
StartedTogether(s) == s.calls.upsert = s.calls.select /\ s.calls.upsert <= 1

\* neither a response nor the query-log insert comes while the upsert or the
\* search is in progress
NothingBeforeBothComplete(s) ==
    s.nresp >= 1 \/ s.calls.insert > 0 =>
        ~InProgress(s.profile) /\ ~InProgress(s.resources)

\* what follows two returned results does not depend on which came first
SameWhicheverFirst(s) ==
    Returned(s.profile) /\ Returned(s.resources) =>
        /\ Failed(s.profile) =>
              s.pc = "done" /\ s.resp = ProfileSyncFailed(s.profile.error)
        /\ Succeeded(s.profile) /\ Failed(s.resources) =>
              s.pc = "done" /\ s.resp = ResourceFetchFailed(s.resources.error)
        /\ Succeeded(s.profile) /\ Succeeded(s.resources) => s.calls.insert = 1

EveryCallReturned(s) ==
    /\ s.calls.getUser > 0 => Returned(s.auth)
    /\ s.calls.upsert > 0 => Returned(s.profile)
    /\ s.calls.select > 0 => Returned(s.resources)
    /\ s.calls.insert > 0 => Returned(s.insert)

\* a collaborator call of the request has not returned
SomeCallOutstanding(s) ==
    \/ s.pc = "auth"
    \/ InProgress(s.profile) \/ InProgress(s.resources) \/ InProgress(s.insert)

\* C19: a request all of whose collaborator calls have returned has received
\* its response (no step of the handler remains between the last return and
\* the response), and a request with a call that has not returned has received
\* none.
C19_AnsweredOnceCallsReturn ==
    \A r \in Slots :
        LET s == reqs[r]
        IN  s.pc # "idle" =>
                /\ EveryCallReturned(s) /\ ~Waiting(s) => s.nresp = 1
                /\ SomeCallOutstanding(s) => s.nresp = 0

\* the key of every request is the first forwarded address if there is one and
\* the peer address otherwise; a request with a key not yet in the table is
\* allowed; a request without a key is not rate-checked
KeyFromForwardedFor ==
    \A r \in Slots :
        LET s == reqs[r]
        IN  s.pc # "idle" =>
                /\ HasKey(s.req) =>
                      /\ s.clientIp = ClientKey(s.req)
                      /\ s.rate \in {"allowed", "denied"}
                      /\ InTable(rateLimitStore, ClientKey(s.req).v)
                /\ HasKey(s.req) /\ ~InTable([a |-> s.before], "a") =>
                      s.rate = "allowed" /\ s.nth = 1 /\ s.resp.status # 429
                /\ ~HasKey(s.req) => s.rate = "skipped" /\ s.resp.status # 429

\* the arrival of a request without a key leaves the table as it is
KeylessLeavesTable ==
    \A r \in Slots :
        Arrives(r) /\ ~HasKey(reqs'[r].req) => rateLimitStore' = rateLimitStore

\* C20: the rate-limit key is the first comma-separated element of the
\* X-Forwarded-For header (white space around it removed) whenever that is
\* non-empty, and the peer address only otherwise; hence a request that brings
\* a forwarded address not seen before is allowed, however many requests its
\* caller has sent under other addresses; and a request for which no non-empty
\* key can be derived skips the rate limiter without touching the table.
C20_KeyIsForwardedAddress == []KeyFromForwardedFor /\ [][KeylessLeavesTable]_vars

\* a caller denied under its peer address is allowed with a forwarded address
\* in the header
C20_Witness ==
    \E r \in Slots :
        LET s == reqs[r]
        IN  /\ rateLimitStore["p"].count = 32
            /\ s.req.ip = Str("p")
            /\ s.req.xff = Str(" a , b")
            /\ s.clientIp = Str("a")
            /\ s.nth = 1
            /\ s.rate = "allowed"

====
